---------------------------- MODULE Spec2Model ----------------------------
(***************************************************************************)
(* A model of custom-electron-titlebar's Titlebar (src/src/titlebar.ts):   *)
(* the title bar object, the menu bar instances it creates, the debounced  *)
(* menu updater, the channel and DOM events it listens to, and the         *)
(* action-tree build run by updateMenu.                                    *)
(***************************************************************************)
EXTENDS Integers, Sequences, FiniteSets, TLC

VARIABLES
    os,         \* the platform the renderer runs on, fixed for a run
    tb,         \* the Titlebar object's fields
    dom,        \* the DOM the titlebar owns (titlebar, container, menubar container)
    bars,       \* every MenuBar instance created so far, by creation order
    ipc,        \* the channel: unanswered 'request-application-menu' requests
    hist,       \* observations of the run (no program state)
    bMenu,      \* input of the action-tree build
    bActions,   \* output of the action-tree build
    bPc,        \* position of the action-tree build: "idle", "start", "done"
    call        \* a call in progress outside the running titlebar: its function,
                \* arguments, position and result

vars == <<os, tb, dom, bars, ipc, hist, bMenu, bActions, bPc, call>>
tvars == <<os, tb, dom, bars, ipc, hist>>
bvars == <<bMenu, bActions, bPc, call>>

-----------------------------------------------------------------------------
(* Bounds of the model *)

\* most MenuNodes in a menu tree given to the action-tree build
MaxNodes == 5
\* most MenuBar instances created in one run
MaxBars == 3
\* most unanswered 'request-application-menu' requests
MaxPending == 1
\* clock steps in one scheduler delay
TicksPerDelay == 2
\* most resize listeners updateTitleAlignment has added to the window
MaxTitleListeners == 2

(* Program constants *)

\* new RunOnceScheduler(..., 200)
MenuUpdaterDelay == 200
BOTTOM_TITLEBAR_HEIGHT == 60
TOP_TITLEBAR_HEIGHT_WIN == 30
TOP_TITLEBAR_HEIGHT_MAC_BIGSUR == 28
TOP_TITLEBAR_HEIGHT_MAC_OLD == 22

(* Platform predicates *)

Platforms == {"windows", "mac", "macBigSur"}
isMacintosh(w) == w.os \in {"mac", "macBigSur"}
IS_MAC_BIGSUR_OR_LATER(w) == w.os = "macBigSur"
TOP_TITLEBAR_HEIGHT_MAC(w) ==
    IF IS_MAC_BIGSUR_OR_LATER(w) THEN TOP_TITLEBAR_HEIGHT_MAC_BIGSUR
    ELSE TOP_TITLEBAR_HEIGHT_MAC_OLD

-----------------------------------------------------------------------------
(* Labels are strings, modelled as sequences of one-character strings. *)

IsWordChar(c) == c \in {"a", "b", "s", "t"}

\* label.replace(/\(&&\w\)|&&/g, ''), scanning from position i
RECURSIVE stripMnemonics(_, _)
stripMnemonics(label, i) ==
    IF i > Len(label) THEN <<>>
    ELSE IF /\ i + 4 <= Len(label)
            /\ label[i] = "("
            /\ label[i + 1] = "&"
            /\ label[i + 2] = "&"
            /\ IsWordChar(label[i + 3])
            /\ label[i + 4] = ")"
         THEN stripMnemonics(label, i + 5)
    ELSE IF i + 1 <= Len(label) /\ label[i] = "&" /\ label[i + 1] = "&"
         THEN stripMnemonics(label, i + 2)
    ELSE <<label[i]>> \o stripMnemonics(label, i + 1)

\* s.replace(/&/g, r), scanning from position i
RECURSIVE replaceAmp(_, _, _)
replaceAmp(s, r, i) ==
    IF i > Len(s) THEN <<>>
    ELSE (IF s[i] = "&" THEN r ELSE <<s[i]>>) \o replaceAmp(s, r, i + 1)

RECURSIVE swapAmpSingleFirst(_, _)
swapAmpSingleFirst(label, i) ==
    IF i > Len(label) THEN <<>>
    ELSE IF label[i] = "&"
         THEN <<"&", "&">> \o swapAmpSingleFirst(label, i + 1)
    ELSE <<label[i]>> \o swapAmpSingleFirst(label, i + 1)

\* label.replace(/&&|&/g, m => m === '&' ? '&&' : '&'), scanning from position i
RECURSIVE swapAmp(_, _)
swapAmp(label, i) ==
    IF i > Len(label) THEN <<>>
    ELSE IF i + 1 <= Len(label) /\ label[i] = "&" /\ label[i + 1] = "&"
         THEN <<"&">> \o swapAmp(label, i + 2)
    ELSE IF label[i] = "&"
         THEN <<"&", "&">> \o swapAmp(label, i + 1)
    ELSE <<label[i]>> \o swapAmp(label, i + 1)

mnemonicMenuLabel(label, forceDisableMnemonics, mac) ==
    IF mac \/ forceDisableMnemonics
    THEN replaceAmp(stripMnemonics(label, 1),
                    IF mac THEN <<"&">> ELSE <<"&", "&">>, 1)
    ELSE swapAmp(label, 1)

-----------------------------------------------------------------------------
(* Menu trees (Electron Menu / MenuItem) and the actions built from them. *)

\* A MenuItem without a submenu
LeafItem(id, label, checked) ==
    [kind |-> "item", id |-> id, label |-> label, enabled |-> TRUE,
     checked |-> checked]

\* A MenuItem with a submenu (a Menu object, truthy even when it has no items)
SubmenuItem(label, items) ==
    [kind |-> "submenu", label |-> label, items |-> items]

Menu(items) == [kind |-> "menu", items |-> items]
NullMenu == [kind |-> "null"]
UndefinedMenu == [kind |-> "undefined"]

\* `if (menu)`
Truthy(menu) == menu.kind = "menu"

\* new Action(action.id, mnemonicMenuLabel(action.label), '', action.enabled, ...)
\* with checked copied
NewAction(action, mac) ==
    [kind |-> "Action", id |-> action.id,
     label |-> mnemonicMenuLabel(action.label, FALSE, mac),
     enabled |-> action.enabled, checked |-> action.checked]

\* new SubmenuAction('', mnemonicMenuLabel(action.label), submenuActions)
NewSubmenuAction(action, submenuActions, mac) ==
    [kind |-> "SubmenuAction", id |-> "",
     label |-> mnemonicMenuLabel(action.label, FALSE, mac),
     actions |-> submenuActions]

pushSubmenuAlways(target, action, submenuActions, mac) ==
    Append(target, NewSubmenuAction(action, submenuActions, mac))

\* if (submenuActions.length > 0) target.push(new SubmenuAction(...))
pushSubmenu(target, action, submenuActions, mac) ==
    IF Len(submenuActions) > 0
    THEN Append(target, NewSubmenuAction(action, submenuActions, mac))
    ELSE target

popKeepAll(target) == target

\* target.pop()
popLast(target) ==
    IF Len(target) = 0 THEN target ELSE SubSeq(target, 1, Len(target) - 1)

RECURSIVE updateActions(_, _)
RECURSIVE pushActions(_, _, _, _)

\* for (let action of actions) { ... }, from the i-th sibling on
pushActions(items, i, target, mac) ==
    IF i > Len(items) THEN target
    ELSE LET action == items[i] IN
         IF action.kind = "submenu"
         THEN pushActions(items, i + 1,
                  pushSubmenu(target, action, updateActions(action.items, mac), mac),
                  mac)
         ELSE pushActions(items, i + 1, Append(target, NewAction(action, mac)), mac)

\* updateActions(menu, target, topLevelTitle): target.splice(0); the loop; target.pop()
updateActions(items, mac) == popLast(pushActions(items, 1, <<>>, mac))

\* Menu trees with n MenuNodes in all
RECURSIVE ItemListsOfSize(_)
RECURSIVE ItemsOfSize(_)

LeafKinds ==
    {LeafItem("a", <<"&", "a">>, FALSE), LeafItem("b", <<"b", "&", "&", "t">>, TRUE)}

ItemsOfSize(k) ==
    (IF k = 1 THEN LeafKinds ELSE {})
        \cup {SubmenuItem(<<"s">>, f) : f \in ItemListsOfSize(k - 1)}

ItemListsOfSize(n) ==
    IF n = 0 THEN {<<>>}
    ELSE UNION {{<<nd>> \o f : nd \in ItemsOfSize(k), f \in ItemListsOfSize(n - k)} :
                k \in 1..n}

BuildInputs == UNION {{Menu(f) : f \in ItemListsOfSize(n)} : n \in 0..MaxNodes}

-----------------------------------------------------------------------------
(* Colors (vs/base/common/color), for the two colors the model uses. *)

White == "#ffffff"
Black == "#000000"
Colors == {White, Black}
INACTIVE_FOREGROUND_DARK == "#222222"
ACTIVE_FOREGROUND_DARK == "#333333"
INACTIVE_FOREGROUND == "#EEEEEE"
ACTIVE_FOREGROUND == "#FFFFFF"
ITEM_BG_DEFAULT == "rgba(0, 0, 0, 0.12)"

\* Color.lighten(.15): HSL lightness l + l * .15, clamped
lighten(c) == c
\* Color.darken(.16): HSL lightness l - l * .16
darken(c) == IF c = White THEN "#d6d6d6" ELSE c
\* Color.isLighter(): (r * 299 + g * 587 + b * 114) / 1000 >= 128
isLighter(c) == c \in {White, "#d6d6d6"}

-----------------------------------------------------------------------------
(* MenuBar (vs/base/browser/ui/menu/menubar) instances. *)

\* getMenuBarOptions()
getMenuBarOptions(w) ==
    [enableMnemonics |-> TRUE,
     alwaysOnMnemonics |-> TRUE,
     compactMode |-> IF w.tb.options.menuPosition = "right" THEN "Left" ELSE "Right"]

\* new MenuBar(container, options)
NewMenuBar(options) ==
    [disposed |-> FALSE, focused |-> FALSE, options |-> options, menus |-> <<>>,
     style |-> [backgroundColor |-> "", foregroundColor |-> "",
                selectionBackgroundColor |-> "", selectionForegroundColor |-> "",
                separatorColor |-> ""]]

\* MenuBar.dispose(): the instance's emitters and DOM are disposed with it
MenuBarDispose(w, b) ==
    [w EXCEPT !.bars[b].disposed = TRUE, !.bars[b].focused = FALSE]

\* MenuBar.push(menu)
MenuBarPush(w, b, menu) == [w EXCEPT !.bars[b].menus = Append(@, menu)]

\* MenuBar.updateMenu(menu): the first menu with the same label takes the actions
MenuBarUpdateMenu(w, b, menu) ==
    LET same == {i \in DOMAIN w.bars[b].menus : w.bars[b].menus[i].label = menu.label} IN
    IF same = {} THEN w
    ELSE LET i == CHOOSE i \in same : \A j \in same : i <= j IN
         [w EXCEPT !.bars[b].menus[i].actions = menu.actions]

\* MenuBar.update(options)
MenuBarUpdate(w, b, options) == [w EXCEPT !.bars[b].options = options]

\* MenuBar.style(style)
MenuBarStyle(w, b, style) == [w EXCEPT !.bars[b].style = style]

(* DisposableStore (vs/base/common/lifecycle): reinstallDisposables. *)

\* the disposables updateMenu adds for menu bar b
BarItem(b) == [kind |-> "menubar", bar |-> b]
FocusStateListener(b) == [kind |-> "onFocusStateChange", bar |-> b]
VisibilityListener(b) == [kind |-> "onVisibilityChange", bar |-> b]
FocusInListener == [kind |-> "focusin", bar |-> 0]
FocusOutListener == [kind |-> "focusout", bar |-> 0]

\* the number of entries of the store equal to item
Registered(w, item) ==
    Cardinality({i \in DOMAIN w.tb.reinstallDisposables :
                    w.tb.reinstallDisposables[i] = item})

\* DisposableStore.clear(): dispose every entry (a listener is removed, a menu
\* bar is disposed) and empty the store
RECURSIVE disposeEntries(_, _)
disposeEntries(w, i) ==
    IF i > Len(w.tb.reinstallDisposables) THEN w
    ELSE LET e == w.tb.reinstallDisposables[i] IN
         disposeEntries(IF e.kind = "menubar" THEN MenuBarDispose(w, e.bar) ELSE w,
                        i + 1)

StoreClear(w) == [disposeEntries(w, 1) EXCEPT !.tb.reinstallDisposables = <<>>]

StoreAdd(w, item) == [w EXCEPT !.tb.reinstallDisposables = Append(@, item)]

(* RunOnceScheduler (vs/base/common/async): menuUpdater. *)

\* RunOnceScheduler.schedule(): cancel(), then setTimeout(handler, 200)
Schedule(w) == [w EXCEPT !.tb.menuUpdater = MenuUpdaterDelay]

-----------------------------------------------------------------------------
(* Titlebar.  A world w holds os, tb, dom, bars, ipc and hist; each method   *)
(* is the world after the call.                                             *)

\* _updateStyles()
updateStyles(w) ==
    LET inactive == w.tb.isInactive = "true"
        base == w.tb.options.backgroundColor
        titleBackground == IF inactive THEN lighten(base) ELSE base
        titleForeground ==
            IF isLighter(titleBackground)
            THEN (IF inactive THEN INACTIVE_FOREGROUND_DARK ELSE ACTIVE_FOREGROUND_DARK)
            ELSE (IF inactive THEN INACTIVE_FOREGROUND ELSE ACTIVE_FOREGROUND)
        backgroundColor == darken(base)
        foregroundColor ==
            IF isLighter(backgroundColor) THEN INACTIVE_FOREGROUND_DARK
            ELSE INACTIVE_FOREGROUND
        item == w.tb.options.itemBackgroundColor
        bgColor == IF item = "undefined" \/ item = backgroundColor
                   THEN ITEM_BG_DEFAULT ELSE item
        fgColor == IF isLighter(bgColor) THEN ACTIVE_FOREGROUND_DARK ELSE ACTIVE_FOREGROUND
        w1 == [w EXCEPT
                 !.dom.titlebarClasses =
                     (IF inactive THEN @ \cup {"inactive"} ELSE @ \ {"inactive"})
                         \cup {"light"},
                 !.dom.titlebarBackground = titleBackground,
                 !.dom.titlebarColor = titleForeground]
    IN  IF w.tb.menubar # 0
        THEN MenuBarStyle(w1, w.tb.menubar,
                 [backgroundColor |-> backgroundColor,
                  foregroundColor |-> foregroundColor,
                  selectionBackgroundColor |-> bgColor,
                  selectionForegroundColor |-> fgColor,
                  separatorColor |-> foregroundColor])
        ELSE w1

\* the top-level loop of updateMenu, from the i-th item on
RECURSIVE pushTopLevel(_, _, _, _)
pushTopLevel(w, menu, i, firstTime) ==
    IF i > Len(menu.items) THEN w
    ELSE IF w.tb.menubar = 0 THEN pushTopLevel(w, menu, i + 1, firstTime)
    ELSE LET entry == [actions |-> updateActions(menu.items, FALSE),
                       label |-> mnemonicMenuLabel(menu.items[i].label, FALSE, FALSE)]
         IN  pushTopLevel(IF firstTime THEN MenuBarPush(w, w.tb.menubar, entry)
                          ELSE MenuBarUpdateMenu(w, w.tb.menubar, entry),
                          menu, i + 1, firstTime)

reinstallKeepOld(w) == w

\* if (this._menubar) this.reinstallDisposables.clear()
reinstallClear(w) == IF w.tb.menubar # 0 THEN StoreClear(w) ELSE w

\* the firstTime branch: a new MenuBar and its listeners
reinstallMenubar(w) ==
    LET w1 == reinstallClear(w)
        b == Len(w1.bars) + 1
        w2 == [w1 EXCEPT !.bars = Append(@, NewMenuBar(getMenuBarOptions(w1))),
                         !.tb.menubar = b]
    IN  StoreAdd(StoreAdd(StoreAdd(StoreAdd(StoreAdd(w2,
            BarItem(b)), FocusStateListener(b)), VisibilityListener(b)),
            FocusInListener), FocusOutListener)

\* if (this._menubar) this._menubar.dispose()
disposeMenubar(w) ==
    IF w.tb.menubar # 0 THEN MenuBarDispose(w, w.tb.menubar) ELSE w

\* `for (let item of menu.items)`: reading items of an absent menu throws a
\* TypeError
updateMenuThrows(w, menu) == ~isMacintosh(w) /\ ~Truthy(menu)

\* updateMenu(menu, firstTime): a throw ends the call before the top-level loop
\* and _updateStyles()
updateMenu(w, menu, firstTime) ==
    IF isMacintosh(w) THEN w
    ELSE LET w0 == [w EXCEPT !.hist.lastMenuOp =
                                 IF firstTime THEN "rebuild" ELSE "refresh"]
             w1 == disposeMenubar(w0)
             w2 == IF Truthy(menu) THEN [w1 EXCEPT !.tb.options.menu = menu] ELSE w1
             w3 == IF firstTime THEN reinstallMenubar(w2)
                   ELSE IF w2.tb.menubar # 0
                        THEN MenuBarUpdate(w2, w2.tb.menubar, getMenuBarOptions(w2))
                        ELSE w2
         IN  IF updateMenuThrows(w, menu) THEN w3
             ELSE updateStyles(pushTopLevel(w3, menu, 1, firstTime))

\* doUpdateMenubar(firstTime)
doUpdateMenubar(w, firstTime) == updateMenu(w, w.tb.options.menu, firstTime)

\* the menuUpdater's runner: () => this.doUpdateMenubar(false)
menuUpdaterRunner(w) ==
    [doUpdateMenubar(w, FALSE) EXCEPT
        !.hist.runsSinceLoss = IF @ < 2 THEN @ + 1 ELSE @,
        !.hist.updaterRanAfterDispose = @ \/ w.hist.disposed]

updateMenubarSync(w) == menuUpdaterRunner(w)

\* updateMenubar(): this.menuUpdater.schedule()
updateMenubar(w) == Schedule(w)

\* the listener updateMenu gives to MenuBar.onFocusStateChange
onFocusStateChangeListener(w, focused) ==
    IF ~focused
    THEN [updateMenubar(w) EXCEPT !.tb.focusInsideMenubar = FALSE]
    ELSE w

\* MenuBar fires its focus-state event: every registered listener runs
RECURSIVE runFocusListeners(_, _, _)
runFocusListeners(w, n, focused) ==
    IF n = 0 THEN w
    ELSE runFocusListeners(onFocusStateChangeListener(w, focused), n - 1, focused)

FireFocusState(w, b, focused) ==
    LET w1 == [w EXCEPT !.bars[b].focused = focused,
                        !.hist.sinceLoss = IF focused THEN @ ELSE 0,
                        !.hist.runsSinceLoss = IF focused THEN @ ELSE 0,
                        !.hist.burst = IF focused THEN @
                                       ELSE IF w.hist.runsSinceLoss > 0 THEN 1
                                       ELSE IF @ = 2 THEN @ ELSE @ + 1]
    IN  runFocusListeners(w1, Registered(w, FocusStateListener(b)), focused)

\* MenuBar.blur(): a focused, undisposed menu bar loses focus and says so
MenuBarBlur(w, b) ==
    IF ~w.bars[b].disposed /\ w.bars[b].focused
    THEN FireFocusState(w, b, FALSE)
    ELSE w

\* _closeMenu
closeMenu(w) == IF w.tb.menubar # 0 THEN MenuBarBlur(w, w.tb.menubar) ELSE w

onWindowFocusClassOnly(w, focus) ==
    IF focus
    THEN updateStyles([w EXCEPT !.dom.titlebarClasses = @ \ {"inactive"},
                                !.tb.isInactive = "false"])
    ELSE closeMenu([w EXCEPT !.dom.titlebarClasses = @ \cup {"inactive"}])

\* onWindowFocus(focus): _onFocus / _onBlur set _isInactive and restyle
onWindowFocus(w, focus) ==
    IF focus
    THEN updateStyles([w EXCEPT !.dom.titlebarClasses = @ \ {"inactive"},
                                !.tb.isInactive = "false"])
    ELSE LET w1 == [w EXCEPT !.dom.titlebarClasses = @ \cup {"inactive"}]
             w2 == closeMenu(w1)
         IN  updateStyles([w2 EXCEPT !.tb.isInactive = "true"])

\* the titlebar height of a menu position on a non-Mac OS
fullScreenTopWin(w) == TOP_TITLEBAR_HEIGHT_WIN

fullScreenTop(w) ==
    IF w.tb.options.menuPosition = "bottom" THEN BOTTOM_TITLEBAR_HEIGHT
    ELSE IF isMacintosh(w) THEN TOP_TITLEBAR_HEIGHT_MAC(w)
    ELSE TOP_TITLEBAR_HEIGHT_WIN

\* onWindowFullScreen(fullscreen)
onWindowFullScreen(w, fullscreen) ==
    IF isMacintosh(w) THEN w
    ELSE IF fullscreen
         THEN [w EXCEPT !.dom.titlebarHidden = TRUE, !.dom.containerTop = 0]
         ELSE [w EXCEPT !.dom.titlebarHidden = FALSE,
                        !.dom.containerTop = fullScreenTop(w)]

\* updateBackground(backgroundColor)
updateBackground(w, color) ==
    updateStyles([w EXCEPT !.tb.options.backgroundColor = color])

\* updateItemBGColor(itemBGColor)
updateItemBGColor(w, color) ==
    updateStyles([w EXCEPT !.tb.options.itemBackgroundColor = color])

\* updateMenuPosition(menuPosition)
updateMenuPosition(w, menuPosition) ==
    LET height == IF isMacintosh(w) THEN TOP_TITLEBAR_HEIGHT_MAC(w)
                  ELSE TOP_TITLEBAR_HEIGHT_WIN
        h == IF menuPosition = "bottom" THEN BOTTOM_TITLEBAR_HEIGHT ELSE height
    IN  [w EXCEPT !.dom.titlebarHeight = h,
                  !.dom.containerTop = h,
                  !.dom.menubarContainerClasses =
                      IF menuPosition = "bottom" THEN @ \cup {"bottom"}
                      ELSE IF menuPosition = "right" THEN @ \cup {"right"}
                      ELSE @ \ {"right", "bottom"},
                  !.tb.options.menuPosition = menuPosition]

\* updateTitleAlignment(side), with the order option left undefined: the
\* listener added for a centered title is never removed
updateTitleAlignment(w, side) ==
    LET w1 == [w EXCEPT !.dom.titleMargin =
                            IF side = "left" THEN "left"
                            ELSE IF side = "right" THEN "right"
                            ELSE @]
    IN  IF side \in {"center", "undefined"} /\ w.tb.options.menuPosition # "bottom"
        THEN [w1 EXCEPT !.dom.titleResizeListeners = @ + 1]
        ELSE w1

\* the resize listener of updateTitleAlignment, when one is on the window
onTitleResize(w, innerWidth) ==
    IF w.dom.titleResizeListeners > 0
    THEN [w EXCEPT !.dom.titleCentered = (innerWidth >= 1188)]
    ELSE w

\* ipcRenderer.invoke('request-application-menu')
requestApplicationMenu(w) == [w EXCEPT !.ipc.pending = @ + 1]

\* refreshMenu()
refreshMenu(w) == IF ~isMacintosh(w) THEN requestApplicationMenu(w) ELSE w

\* onDidVisibilityChange(visible)
onDidVisibilityChange(w, visible) == [w EXCEPT !.tb.visible = visible]

\* the window resize listener of registerListeners()
onWindowResize(w) == closeMenu(w)

\* dispose(): the menu bar is disposed, the titlebar and the container are removed
dispose(w) ==
    [disposeMenubar(w) EXCEPT !.dom.titlebarAttached = FALSE,
                              !.dom.containerAttached = FALSE,
                              !.hist.disposed = TRUE,
                              !.hist.lastMenuOp = "dispose"]

-----------------------------------------------------------------------------
(* Construction *)

MenuFile == SubmenuItem(<<"&", "a">>,
                <<LeafItem("a", <<"&", "a">>, FALSE), LeafItem("b", <<"b">>, TRUE),
                  LeafItem("a", <<"t">>, FALSE)>>)
MenuEdit == SubmenuItem(<<"b">>,
                <<LeafItem("b", <<"b">>, FALSE), LeafItem("a", <<"&", "a">>, FALSE)>>)
MenuHelp == SubmenuItem(<<"t">>, <<LeafItem("a", <<"s">>, FALSE)>>)
MenuA == Menu(<<MenuFile, MenuEdit, MenuHelp>>)
MenuB == Menu(<<MenuEdit, MenuFile>>)

\* the menus a caller or the host passes
MenuInputs == {NullMenu, MenuA, MenuB}
\* the menu option at construction
MenuOptions == {UndefinedMenu, NullMenu, MenuA}
\* the menuPosition option at construction
PositionOptions == {"undefined", "left", "right", "bottom"}
\* the titleHorizontalAlignment option at construction
AlignmentOptions == {"undefined", "left", "center", "right"}
\* window.innerWidth at a resize
WindowWidths == {1187, 1188}
Positions == {"left", "right", "bottom"}

\* the fields before the constructor's setup calls
Fresh(o, menu, menuPosition) ==
    [os |-> o,
     tb |-> [options |-> [menu |-> menu, menuPosition |-> menuPosition,
                          titleHorizontalAlignment |-> "left",
                          icon |-> "string",
                          maximizable |-> TRUE,
                          backgroundColor |-> White,
                          itemBackgroundColor |-> "undefined"],
             isInactive |-> "undefined",
             menubar |-> 0,
             reinstallDisposables |-> <<>>,
             visible |-> TRUE,
             focusInsideMenubar |-> FALSE,
             menuUpdater |-> -1],
     dom |-> [titlebarClasses |-> {},
              titlebarHidden |-> FALSE,
              titlebarHeight |-> 0,
              titlebarBackground |-> "",
              titlebarColor |-> "",
              titlebarAttached |-> FALSE,
              containerTop |-> 0,
              containerAttached |-> TRUE,
              menubarContainerClasses |-> {},
              favicon |-> FALSE,
              maximizeTitle |-> "",
              maximizeIcon |-> "",
              resizersHidden |-> FALSE,
              windowIconSrc |-> "",
              titleMargin |-> "",
              titleCentered |-> FALSE,
              titleResizeListeners |-> 0],
     bars |-> <<>>,
     ipc |-> [pending |-> 0, maximized |-> FALSE],
     hist |-> [sinceLoss |-> -1, runsSinceLoss |-> 0, burst |-> 0,
               lastMenuOp |-> "none", sent |-> <<>>, lastQuery |-> "none",
               lastFocus |-> "none", lastFullScreen |-> "none", disposed |-> FALSE,
               ranAfterDispose |-> FALSE, updaterRanAfterDispose |-> FALSE]]

\* _setupIcon(): with no icon option and no favicon link in the document,
\* `this._options.icon!.toDataURL()` reads a method of undefined and throws a
\* TypeError
setupIconThrows(w) ==
    ~isMacintosh(w) /\ w.tb.options.icon = "undefined" /\ ~w.dom.favicon

\* _setupIcon() when it returns: the icon option is a path ("string") or a
\* NativeImage; a missing one is taken from the favicon link
setupIcon(w) ==
    IF isMacintosh(w) THEN w
    ELSE LET icon == IF w.tb.options.icon = "undefined" THEN "string"
                     ELSE w.tb.options.icon
         IN  [w EXCEPT !.tb.options.icon = icon,
                       !.dom.windowIconSrc =
                           IF icon = "string" THEN "path" ELSE "dataURL"]

\* _createControls(): the maximize control among them
createControls(w) ==
    IF isMacintosh(w) THEN w
    ELSE [w EXCEPT !.dom.maximizeTitle = "Maximize", !.dom.maximizeIcon = "maximize"]

\* ipcRenderer.send('window-event', command) and sendSync('window-event',
\* command): the commands of the running handler, in the order sent
sendWindowEvent(w, command) == [w EXCEPT !.hist.sent = Append(@, command)]

\* _onDidChangeMaximized(): ipc.maximized is what the host answers
onDidChangeMaximized(w) ==
    LET isMaximized == w.ipc.maximized
        w1 == sendWindowEvent(w, "window-is-maximized")
    IN  [w1 EXCEPT !.hist.lastQuery = IF isMaximized THEN "true" ELSE "false",
                   !.dom.maximizeTitle = IF isMaximized THEN "Restore Down" ELSE "Maximize",
                   !.dom.maximizeIcon = IF isMaximized THEN "restore" ELSE "maximize",
                   !.dom.resizersHidden = isMaximized]

maximizeNoQuery(w) == sendWindowEvent(w, "window-maximize")

\* the listener of the maximize control and of the Mac double click
maximize(w) == onDidChangeMaximized(sendWindowEvent(w, "window-maximize"))

\* _setupMenubar()
setupMenubar(w) ==
    LET menu == w.tb.options.menu
        w1 == IF Truthy(menu) THEN updateMenu(w, menu, TRUE)
              ELSE IF menu.kind # "null" THEN requestApplicationMenu(w)
              ELSE w
        position == w.tb.options.menuPosition
    IN  updateMenuPosition(w1, IF position = "undefined" THEN "left" ELSE position)

\* _setupTitlebar()
setupTitlebar(w) ==
    [w EXCEPT !.dom.titlebarHeight =
                  IF IS_MAC_BIGSUR_OR_LATER(w) THEN TOP_TITLEBAR_HEIGHT_MAC(w) ELSE @,
              !.dom.titlebarAttached = TRUE]

\* _setupTitle()
setupTitle(w) ==
    LET side == w.tb.options.titleHorizontalAlignment IN
    updateTitleAlignment(w, IF side = "undefined" THEN "center" ELSE side)

\* constructor(titlebarOptions), from the fields before the setup calls
\* (of _loadEvents, the query at load; its listeners are the actions)
setup(w) ==
    onDidChangeMaximized(updateStyles(setupTitlebar(createControls(
        setupTitle(setupMenubar(setupIcon(w)))))))

\* new Titlebar({menu, menuPosition, titleHorizontalAlignment: 'left'})
Construct(o, menu, menuPosition) == setup(Fresh(o, menu, menuPosition))

-----------------------------------------------------------------------------
(* The state machine *)

\* no call in progress
NoCall == [fn |-> "none", pc |-> "idle"]

World == [os |-> os, tb |-> tb, dom |-> dom, bars |-> bars, ipc |-> ipc, hist |-> hist]

\* a disposed MenuBar that neither _menubar nor reinstallDisposables refers to
\* is out of the program's reach: only its disposed flag is kept
Unreachable(w, b) ==
    /\ w.bars[b].disposed
    /\ w.tb.menubar # b
    /\ Registered(w, BarItem(b)) = 0

Collected(w) ==
    [b \in DOMAIN w.bars |->
        IF Unreachable(w, b)
        THEN [NewMenuBar(getMenuBarOptions(Fresh(w.os, NullMenu, "left")))
                 EXCEPT !.disposed = TRUE]
        ELSE w.bars[b]]

Becomes(w) ==
    /\ os' = w.os
    /\ tb' = w.tb
    /\ dom' = w.dom
    /\ bars' = Collected(w)
    /\ ipc' = w.ipc
    /\ hist' = w.hist

\* a listener the titlebar installed runs: noted when dispose() has returned
Handled(w) == [w EXCEPT !.hist.ranAfterDispose = @ \/ w.hist.disposed]

\* a call that may create a MenuBar stays within MaxBars
MayRebuild == os # "windows" \/ Len(bars) < MaxBars

\* the state after new Titlebar({menu, menuPosition, titleHorizontalAlignment})
ConstructedFrom(positions, alignments) ==
    /\ \E o \in Platforms, menu \in MenuOptions, position \in positions,
          alignment \in alignments :
           LET w == setup([Fresh(o, menu, position) EXCEPT
                              !.tb.options.titleHorizontalAlignment = alignment]) IN
           /\ os = w.os
           /\ tb = w.tb
           /\ dom = w.dom
           /\ bars = w.bars
           /\ ipc = w.ipc
           /\ hist = w.hist
    /\ bMenu = Menu(<<>>)
    /\ bActions = <<>>
    /\ bPc = "idle"
    /\ call = NoCall

\* the same with the title aligned left
Constructed(positions) == ConstructedFrom(positions, {"left"})

Init == ConstructedFrom(PositionOptions, AlignmentOptions)

\* 'window-focus' arrives on the channel
WindowFocusIs(focus) ==
    /\ Becomes([Handled(onWindowFocus(World, focus)) EXCEPT
                   !.hist.lastFocus = IF focus THEN "true" ELSE "false"])
    /\ UNCHANGED bvars

WindowFocus == \E focus \in BOOLEAN : WindowFocusIs(focus)

\* 'window-fullscreen' arrives on the channel
WindowFullScreenIs(fullscreen) ==
    /\ Becomes([Handled(onWindowFullScreen(World, fullscreen)) EXCEPT
                   !.hist.lastFullScreen = IF fullscreen THEN "true" ELSE "false"])
    /\ UNCHANGED bvars

WindowFullScreen == \E fullscreen \in BOOLEAN : WindowFullScreenIs(fullscreen)

\* the window is resized
WindowResize ==
    /\ \E innerWidth \in WindowWidths :
           Becomes(Handled(onWindowResize(onTitleResize(World, innerWidth))))
    /\ UNCHANGED bvars

\* the user moves focus into or out of an undisposed menu bar
MenubarFocusChange ==
    /\ \E b \in DOMAIN bars :
           /\ ~bars[b].disposed
           /\ Becomes(Handled(FireFocusState(World, b, ~bars[b].focused)))
    /\ UNCHANGED bvars

\* an undisposed menu bar reports a visibility change
MenubarVisibilityChange ==
    /\ \E b \in DOMAIN bars, visible \in BOOLEAN :
           /\ ~bars[b].disposed
           /\ Registered(World, VisibilityListener(b)) > 0
           /\ Becomes(Handled(onDidVisibilityChange(World, visible)))
    /\ UNCHANGED bvars

\* focusin / focusout on the menubar container
MenubarContainerFocus ==
    /\ \E inside \in BOOLEAN :
           /\ Registered(World, IF inside THEN FocusInListener ELSE FocusOutListener) > 0
           /\ dom.titlebarAttached
           /\ Becomes(Handled([World EXCEPT !.tb.focusInsideMenubar = inside]))
    /\ UNCHANGED bvars

\* a caller's updateMenu(menu, firstTime)
UpdateMenuWith(menu, firstTime) ==
    /\ firstTime => MayRebuild
    /\ Becomes(updateMenu(World, menu, firstTime))
    /\ UNCHANGED bvars

UpdateMenu == \E menu \in MenuInputs, firstTime \in BOOLEAN : UpdateMenuWith(menu, firstTime)

\* a caller's refreshMenu()
RefreshMenu ==
    /\ ipc.pending < MaxPending
    /\ Becomes(refreshMenu(World))
    /\ UNCHANGED bvars

\* the host answers a 'request-application-menu' request: .then(menu => this.updateMenu(menu))
MenuResponse ==
    /\ ipc.pending > 0
    /\ MayRebuild
    /\ \E menu \in MenuInputs :
           Becomes(updateMenu([World EXCEPT !.ipc.pending = @ - 1], menu, TRUE))
    /\ UNCHANGED bvars

UpdateMenuPositionTo(position) ==
    /\ Becomes(updateMenuPosition(World, position))
    /\ UNCHANGED bvars

UpdateMenuPosition == \E position \in Positions : UpdateMenuPositionTo(position)

\* a caller's updateTitleAlignment(side)
UpdateTitleAlignmentTo(side) ==
    /\ dom.titleResizeListeners < MaxTitleListeners
    /\ Becomes(updateTitleAlignment(World, side))
    /\ UNCHANGED bvars

UpdateTitleAlignment ==
    \E side \in {"left", "center", "right"} : UpdateTitleAlignmentTo(side)

UpdateBackground ==
    /\ \E color \in Colors : Becomes(updateBackground(World, color))
    /\ UNCHANGED bvars

UpdateItemBGColor ==
    /\ \E color \in Colors : Becomes(updateItemBGColor(World, color))
    /\ UNCHANGED bvars

Dispose ==
    /\ Becomes(dispose(World))
    /\ UNCHANGED bvars

\* time passes, never past a pending timeout of the menuUpdater
Tick ==
    /\ tb.menuUpdater # 0
    /\ LET step == MenuUpdaterDelay \div TicksPerDelay
           d == IF tb.menuUpdater > 0 /\ tb.menuUpdater < step THEN tb.menuUpdater
                ELSE step
           cap == MenuUpdaterDelay + step
       IN  Becomes([World EXCEPT
                      !.tb.menuUpdater = IF @ > 0 THEN @ - d ELSE @,
                      !.hist.sinceLoss = IF @ < 0 THEN @
                                         ELSE IF @ + d > cap THEN cap ELSE @ + d])
    /\ UNCHANGED bvars

\* the menuUpdater's timeout expires: RunOnceScheduler.onTimeout()
MenuUpdaterFire ==
    /\ tb.menuUpdater = 0
    /\ Becomes(menuUpdaterRunner([World EXCEPT !.tb.menuUpdater = -1]))
    /\ UNCHANGED bvars

Next ==
    \/ WindowFocus
    \/ WindowFullScreen
    \/ WindowResize
    \/ MenubarFocusChange
    \/ MenubarVisibilityChange
    \/ MenubarContainerFocus
    \/ UpdateMenu
    \/ RefreshMenu
    \/ MenuResponse
    \/ UpdateMenuPosition
    \/ UpdateTitleAlignment
    \/ UpdateBackground
    \/ UpdateItemBGColor
    \/ Dispose
    \/ Tick
    \/ MenuUpdaterFire

\* every interleaving of every operation; the claims are checked on the three
\* parts below, each with the operations its claims are about
Spec == Init /\ [][Next]_vars

(* The menu bar's life: rebuilds, refreshes, the debounced updater, disposal *)

InitMenu == Constructed({"undefined", "right"})

NextMenu ==
    \/ WindowResize
    \/ MenubarFocusChange
    \/ MenubarVisibilityChange
    \/ MenubarContainerFocus
    \/ UpdateMenu
    \/ RefreshMenu
    \/ MenuResponse
    \/ Dispose
    \/ Tick
    \/ MenuUpdaterFire

SpecMenu == InitMenu /\ [][NextMenu]_vars

(* Window focus and colors *)

InitFocus == Constructed({"undefined"})

NextFocus ==
    \/ WindowFocus
    \/ MenubarFocusChange
    \/ UpdateMenu
    \/ UpdateBackground
    \/ UpdateItemBGColor
    \/ Dispose

SpecFocus == InitFocus /\ [][NextFocus]_vars

(* Layout: fullscreen and the menu position *)

InitLayout == Constructed(PositionOptions)

NextLayout ==
    \/ WindowFullScreen
    \/ UpdateMenuPosition
    \/ UpdateMenu
    \/ Dispose

SpecLayout == InitLayout /\ [][NextLayout]_vars

(* The title: its alignment, the menu position and window resizes *)

NextTitle ==
    \/ UpdateMenuPosition
    \/ UpdateTitleAlignment
    \/ WindowResize
    \/ WindowFullScreen

SpecTitle == Init /\ [][NextTitle]_vars

(* The window controls *)

InitControls ==
    /\ \E o \in Platforms, menu \in MenuOptions, position \in PositionOptions,
          maximizable \in BOOLEAN, isMaximized \in BOOLEAN :
           LET w == setup([Fresh(o, menu, position) EXCEPT
                              !.tb.options.maximizable = maximizable,
                              !.ipc.maximized = isMaximized]) IN
           /\ os = w.os
           /\ tb = w.tb
           /\ dom = w.dom
           /\ bars = w.bars
           /\ ipc = w.ipc
           /\ hist = w.hist
    /\ bMenu = Menu(<<>>)
    /\ bActions = <<>>
    /\ bPc = "idle"
    /\ call = NoCall

\* the window is maximized or restored, by the host's handling of
\* 'window-maximize' or by the user
HostMaximizedChange ==
    /\ Becomes([World EXCEPT !.ipc.maximized = ~@])
    /\ UNCHANGED bvars

\* a click on the maximize control (in the document on a non-Mac OS only);
\* the listener is there when options.maximizable
MaximizeControlClick ==
    /\ ~isMacintosh(World)
    /\ dom.titlebarAttached
    /\ Becomes(IF tb.options.maximizable THEN maximize([World EXCEPT !.hist.sent = <<>>])
                ELSE World)
    /\ UNCHANGED bvars

\* a double click on the titlebar; the listener is there on a Mac
TitlebarDoubleClick ==
    /\ dom.titlebarAttached
    /\ Becomes(IF isMacintosh(World) THEN maximize([World EXCEPT !.hist.sent = <<>>])
                ELSE World)
    /\ UNCHANGED bvars

NextControls ==
    \/ HostMaximizedChange
    \/ MaximizeControlClick
    \/ TitlebarDoubleClick
    \/ Dispose

SpecControls == InitControls /\ [][NextControls]_vars

(* Construction and the calls that take a menu, watched for what they throw *)

IconOptions == {"undefined", "string", "NativeImage"}

InitSetup ==
    /\ \E o \in Platforms, menu \in MenuOptions, position \in PositionOptions,
          icon \in IconOptions, favicon \in BOOLEAN :
           LET w == [Fresh(o, menu, position) EXCEPT !.tb.options.icon = icon,
                                                     !.dom.favicon = favicon] IN
           /\ os = w.os
           /\ tb = w.tb
           /\ dom = w.dom
           /\ bars = w.bars
           /\ ipc = w.ipc
           /\ hist = w.hist
    /\ bMenu = Menu(<<>>)
    /\ bActions = <<>>
    /\ bPc = "idle"
    /\ call = [fn |-> "constructor", pc |-> "start"]

\* the call fn has returned or thrown
Returned(fn, threw) ==
    /\ call' = [fn |-> fn, pc |-> IF threw THEN "threw" ELSE "done"]
    /\ UNCHANGED <<bMenu, bActions, bPc>>

\* new Titlebar(options): a throw in _setupIcon ends the constructor before
\* any later setup call
NewTitlebar ==
    /\ call.fn = "constructor"
    /\ call.pc = "start"
    /\ Becomes(IF setupIconThrows(World) THEN World ELSE setup(World))
    /\ Returned("constructor", setupIconThrows(World))

\* a caller's updateMenu(menu) on the constructed titlebar
CallUpdateMenu ==
    /\ dom.titlebarAttached
    /\ MayRebuild
    /\ \E menu \in MenuInputs :
           /\ Becomes(updateMenu(World, menu, TRUE))
           /\ Returned("updateMenu", updateMenuThrows(World, menu))

\* a caller's refreshMenu() on the constructed titlebar
CallRefreshMenu ==
    /\ dom.titlebarAttached
    /\ RefreshMenu

\* the host's answer reaches .then(menu => this.updateMenu(menu))
HostResponse ==
    /\ ipc.pending > 0
    /\ MayRebuild
    /\ \E menu \in MenuInputs :
           LET w == [World EXCEPT !.ipc.pending = @ - 1] IN
           /\ Becomes(updateMenu(w, menu, TRUE))
           /\ Returned("response", updateMenuThrows(w, menu))

NextSetup ==
    \/ NewTitlebar
    \/ CallUpdateMenu
    \/ CallRefreshMenu
    \/ HostResponse

SpecSetup == InitSetup /\ [][NextSetup]_vars

(* The action-tree build on its own *)

InitBuild ==
    /\ LET w == Construct("windows", UndefinedMenu, "undefined") IN
       /\ os = w.os
       /\ tb = w.tb
       /\ dom = w.dom
       /\ bars = w.bars
       /\ ipc = w.ipc
       /\ hist = w.hist
    /\ bMenu \in BuildInputs
    /\ bActions = <<>>
    /\ bPc = "start"
    /\ call = NoCall

\* updateActions(menu, actions, item.label) as updateMenu calls it
Build ==
    /\ bPc = "start"
    /\ bActions' = updateActions(bMenu.items, FALSE)
    /\ bPc' = "done"
    /\ UNCHANGED <<bMenu, call, tvars>>

NextBuild == Build

SpecBuild == InitBuild /\ [][NextBuild]_vars

-----------------------------------------------------------------------------
(* Keybindings (src/src/main/attach-titlebar-to-window.ts) *)

\* most packed keybinding of the contiguous range of inputs
MaxPacked == 8191
\* most key code of the contiguous range of inputs
MaxKeyCode == 6

\* a & b of two non-negative integers below 2^31, bit by bit
RECURSIVE BitAnd(_, _)
BitAnd(a, b) ==
    IF a = 0 \/ b = 0 THEN 0
    ELSE (a % 2) * (b % 2) + 2 * BitAnd(a \div 2, b \div 2)

\* const enum BinaryKeybindingsMask: (1 << n) >>> 0 and 0x000000FF
BinaryKeybindingsMask ==
    [CtrlCmd |-> 2^11, Shift |-> 2^10, Alt |-> 2^9, WinCtrl |-> 2^8, KeyCode |-> 255]

\* OperatingSystem (vs/base/common/platform)
OperatingSystems == {"Windows", "Macintosh", "Linux"}

\* KeyCode (vs/base/common/keyCodes): the members used here
KeyCode == [Unknown |-> 0, Shift |-> 4, Ctrl |-> 5, Alt |-> 6, KEY_A |-> 31, Meta |-> 57]

\* ScanCode (vs/base/common/keyCodes): the members used here
ScanCodes ==
    {"None", "KeyA", "ControlLeft", "ShiftLeft", "AltLeft", "MetaLeft",
     "ControlRight", "ShiftRight", "AltRight", "MetaRight"}

\* new SimpleKeybinding(ctrlKey, shiftKey, altKey, metaKey, keyCode)
SimpleKeybinding(ctrlKey, shiftKey, altKey, metaKey, keyCode) ==
    [ctrlKey |-> ctrlKey, shiftKey |-> shiftKey, altKey |-> altKey,
     metaKey |-> metaKey, keyCode |-> keyCode]

\* new ScanCodeBinding(ctrlKey, shiftKey, altKey, metaKey, scanCode)
ScanCodeBinding(ctrlKey, shiftKey, altKey, metaKey, scanCode) ==
    [ctrlKey |-> ctrlKey, shiftKey |-> shiftKey, altKey |-> altKey,
     metaKey |-> metaKey, scanCode |-> scanCode]

createSimpleKeybindingNoSwap(keybinding, OS) ==
    LET ctrlCmd == BitAnd(keybinding, BinaryKeybindingsMask.CtrlCmd) # 0
        winCtrl == BitAnd(keybinding, BinaryKeybindingsMask.WinCtrl) # 0
    IN  SimpleKeybinding(IF OS = "Macintosh" THEN winCtrl ELSE ctrlCmd,
                         BitAnd(keybinding, BinaryKeybindingsMask.Shift) # 0,
                         BitAnd(keybinding, BinaryKeybindingsMask.Alt) # 0,
                         winCtrl,
                         BitAnd(keybinding, BinaryKeybindingsMask.KeyCode))

createSimpleKeybindingMacInverted(keybinding, OS) ==
    LET ctrlCmd == BitAnd(keybinding, BinaryKeybindingsMask.CtrlCmd) # 0
        winCtrl == BitAnd(keybinding, BinaryKeybindingsMask.WinCtrl) # 0
    IN  SimpleKeybinding(IF OS = "Macintosh" THEN ctrlCmd ELSE winCtrl,
                         BitAnd(keybinding, BinaryKeybindingsMask.Shift) # 0,
                         BitAnd(keybinding, BinaryKeybindingsMask.Alt) # 0,
                         IF OS = "Macintosh" THEN winCtrl ELSE ctrlCmd,
                         BitAnd(keybinding, BinaryKeybindingsMask.KeyCode))

createSimpleKeybindingWideKeyCode(keybinding, OS) ==
    LET ctrlCmd == BitAnd(keybinding, BinaryKeybindingsMask.CtrlCmd) # 0
        winCtrl == BitAnd(keybinding, BinaryKeybindingsMask.WinCtrl) # 0
    IN  SimpleKeybinding(IF OS = "Macintosh" THEN winCtrl ELSE ctrlCmd,
                         BitAnd(keybinding, BinaryKeybindingsMask.Shift) # 0,
                         BitAnd(keybinding, BinaryKeybindingsMask.Alt) # 0,
                         IF OS = "Macintosh" THEN ctrlCmd ELSE winCtrl,
                         BitAnd(keybinding, 2 * BinaryKeybindingsMask.KeyCode + 1))

\* createSimpleKeybinding(keybinding, OS)
createSimpleKeybinding(keybinding, OS) ==
    LET ctrlCmd == BitAnd(keybinding, BinaryKeybindingsMask.CtrlCmd) # 0
        winCtrl == BitAnd(keybinding, BinaryKeybindingsMask.WinCtrl) # 0
        ctrlKey == IF OS = "Macintosh" THEN winCtrl ELSE ctrlCmd
        shiftKey == BitAnd(keybinding, BinaryKeybindingsMask.Shift) # 0
        altKey == BitAnd(keybinding, BinaryKeybindingsMask.Alt) # 0
        metaKey == IF OS = "Macintosh" THEN ctrlCmd ELSE winCtrl
        keyCode == BitAnd(keybinding, BinaryKeybindingsMask.KeyCode)
    IN  SimpleKeybinding(ctrlKey, shiftKey, altKey, metaKey, keyCode)

\* SimpleKeybinding.equals(other)
equals(this, other) ==
    /\ this.ctrlKey = other.ctrlKey
    /\ this.shiftKey = other.shiftKey
    /\ this.altKey = other.altKey
    /\ this.metaKey = other.metaKey
    /\ this.keyCode = other.keyCode

\* `${n}` of a non-negative integer: its decimal digits
RECURSIVE NumberToString(_)
NumberToString(n) ==
    LET digit == <<"0", "1", "2", "3", "4", "5", "6", "7", "8", "9">>[(n % 10) + 1] IN
    IF n < 10 THEN <<digit>> ELSE Append(NumberToString(n \div 10), digit)

getHashCodeNoMeta(this) ==
    <<IF this.ctrlKey THEN "1" ELSE "0",
      IF this.shiftKey THEN "1" ELSE "0",
      IF this.altKey THEN "1" ELSE "0">> \o NumberToString(this.keyCode)

\* SimpleKeybinding.getHashCode()
getHashCode(this) ==
    <<IF this.ctrlKey THEN "1" ELSE "0",
      IF this.shiftKey THEN "1" ELSE "0",
      IF this.altKey THEN "1" ELSE "0",
      IF this.metaKey THEN "1" ELSE "0">> \o NumberToString(this.keyCode)

isDuplicateModifierCaseAnyModifier(this) ==
    /\ this.ctrlKey \/ this.shiftKey \/ this.altKey \/ this.metaKey
    /\ this.keyCode \in {KeyCode.Ctrl, KeyCode.Shift, KeyCode.Alt, KeyCode.Meta}

\* SimpleKeybinding.isDuplicateModifierCase()
isDuplicateModifierCase(this) ==
    \/ this.ctrlKey /\ this.keyCode = KeyCode.Ctrl
    \/ this.shiftKey /\ this.keyCode = KeyCode.Shift
    \/ this.altKey /\ this.keyCode = KeyCode.Alt
    \/ this.metaKey /\ this.keyCode = KeyCode.Meta

\* ScanCodeBinding.isDuplicateModifierCase()
scanCodeIsDuplicateModifierCase(this) ==
    \/ this.ctrlKey /\ (this.scanCode = "ControlLeft" \/ this.scanCode = "ControlRight")
    \/ this.shiftKey /\ (this.scanCode = "ShiftLeft" \/ this.scanCode = "ShiftRight")
    \/ this.altKey /\ (this.scanCode = "AltLeft" \/ this.scanCode = "AltRight")
    \/ this.metaKey /\ (this.scanCode = "MetaLeft" \/ this.scanCode = "MetaRight")

(* Pure functions, each called once on an input *)

\* packed keybindings: every value up to MaxPacked, and values with higher bits
PackedInputs ==
    0..MaxPacked
        \cup {2^k + j : k \in 13..30, j \in {0, 1, 257, 2049, 4095}}
        \cup {2^30 + (2^30 - 1)}

KeyCodeInputs == 0..MaxKeyCode \cup {10, KeyCode.KEY_A, KeyCode.Meta}

SimpleKeybindings ==
    {SimpleKeybinding(c, s, a, m, k) :
        c \in BOOLEAN, s \in BOOLEAN, a \in BOOLEAN, m \in BOOLEAN, k \in KeyCodeInputs}

\* most characters of a label given to mnemonicMenuLabel
MaxLabelLen == 5

\* labels of "&", a word character and the parentheses of a mnemonic group
RECURSIVE LabelsOfLen(_)
LabelsOfLen(n) ==
    IF n = 0 THEN {<<>>}
    ELSE {Append(l, c) : l \in LabelsOfLen(n - 1), c \in {"&", "a", "(", ")"}}

LabelInputs == UNION {LabelsOfLen(n) : n \in 0..MaxLabelLen}

InitCall ==
    /\ LET w == Construct("windows", UndefinedMenu, "undefined") IN
       /\ os = w.os
       /\ tb = w.tb
       /\ dom = w.dom
       /\ bars = w.bars
       /\ ipc = w.ipc
       /\ hist = w.hist
    /\ bMenu = Menu(<<>>)
    /\ bActions = <<>>
    /\ bPc = "idle"
    /\ \/ \E p \in PackedInputs :
              call = [fn |-> "createSimpleKeybinding", pc |-> "start", keybinding |-> p]
       \/ \E a \in SimpleKeybindings, b \in SimpleKeybindings :
              call = [fn |-> "equals", pc |-> "start", a |-> a, b |-> b]
       \/ \E a \in SimpleKeybindings, s \in ScanCodes :
              call = [fn |-> "isDuplicateModifierCase", pc |-> "start", simple |-> a,
                      scan |-> ScanCodeBinding(a.ctrlKey, a.shiftKey, a.altKey,
                                               a.metaKey, s)]
       \/ \E label \in LabelInputs :
              call = [fn |-> "mnemonicMenuLabel", pc |-> "start", label |-> label]

\* createSimpleKeybinding(keybinding, OS) for each OS
CreateSimpleKeybinding ==
    /\ call.fn = "createSimpleKeybinding"
    /\ call.pc = "start"
    /\ call' = [fn |-> call.fn, pc |-> "done", keybinding |-> call.keybinding,
                result |-> [OS \in OperatingSystems |->
                               createSimpleKeybinding(call.keybinding, OS)]]
    /\ UNCHANGED <<tvars, bMenu, bActions, bPc>>

\* a.equals(b), b.equals(a), a.equals(a) and the two hash codes
Equals ==
    /\ call.fn = "equals"
    /\ call.pc = "start"
    /\ call' = [fn |-> call.fn, pc |-> "done", a |-> call.a, b |-> call.b,
                ab |-> equals(call.a, call.b), ba |-> equals(call.b, call.a),
                aa |-> equals(call.a, call.a),
                hashA |-> getHashCode(call.a), hashB |-> getHashCode(call.b)]
    /\ UNCHANGED <<tvars, bMenu, bActions, bPc>>

\* isDuplicateModifierCase() of a SimpleKeybinding and of a ScanCodeBinding
IsDuplicateModifierCase ==
    /\ call.fn = "isDuplicateModifierCase"
    /\ call.pc = "start"
    /\ call' = [fn |-> call.fn, pc |-> "done", simple |-> call.simple,
                scan |-> call.scan,
                simpleResult |-> isDuplicateModifierCase(call.simple),
                scanResult |-> scanCodeIsDuplicateModifierCase(call.scan)]
    /\ UNCHANGED <<tvars, bMenu, bActions, bPc>>

\* mnemonicMenuLabel(label) on a non-Mac OS, once and twice, and on a Mac
MnemonicMenuLabel ==
    /\ call.fn = "mnemonicMenuLabel"
    /\ call.pc = "start"
    /\ LET once == mnemonicMenuLabel(call.label, FALSE, FALSE) IN
       call' = [fn |-> call.fn, pc |-> "done", label |-> call.label,
                nonMac |-> once,
                twice |-> mnemonicMenuLabel(once, FALSE, FALSE),
                mac |-> mnemonicMenuLabel(call.label, FALSE, TRUE)]
    /\ UNCHANGED <<tvars, bMenu, bActions, bPc>>

NextCall ==
    \/ CreateSimpleKeybinding
    \/ Equals
    \/ IsDuplicateModifierCase
    \/ MnemonicMenuLabel

SpecCall == InitCall /\ [][NextCall]_vars

-----------------------------------------------------------------------------
(* Claims *)

\* C1: on a non-Mac OS, after the menu bar's latest focus-loss event the
\* debounced doUpdateMenubar(false) has not run before 200ms have passed (so
\* not at the event itself) and has run exactly once when more than 200ms have
\* passed, however many focus losses came before it within the window.
C1_DebounceRunsOnce ==
    (os = "windows" /\ hist.sinceLoss >= 0) =>
        /\ hist.runsSinceLoss <= 1
        /\ hist.sinceLoss < MenuUpdaterDelay => hist.runsSinceLoss = 0
        /\ hist.sinceLoss > MenuUpdaterDelay => hist.runsSinceLoss = 1

\* two focus losses were coalesced into the one run, 200ms after the second
C1_Witness ==
    /\ os = "windows"
    /\ hist.burst = 2
    /\ hist.runsSinceLoss = 1
    /\ hist.sinceLoss = MenuUpdaterDelay
    /\ tb.menuUpdater = -1

\* C2: once dispose() has returned, the debounced doUpdateMenubar never runs.
C2_NoUpdateAfterDispose == ~hist.updaterRanAfterDispose

\* C3: once dispose() has returned, no listener the titlebar installed runs.
C3_NoHandlerAfterDispose == ~hist.ranAfterDispose

\* an incremental refresh: updateMenu(menu, false), by a caller or by the updater
IncrementalRefresh ==
    \/ \E menu \in MenuInputs : UpdateMenuWith(menu, FALSE)
    \/ MenuUpdaterFire

\* C4: on a non-Mac OS an incremental refresh leaves the rendered menu bar
\* undisposed and in place.
C4_RefreshKeepsMenubar ==
    [][(/\ IncrementalRefresh
        /\ os = "windows"
        /\ tb.menubar # 0
        /\ ~bars[tb.menubar].disposed)
       => (tb'.menubar = tb.menubar /\ ~bars'[tb.menubar].disposed)]_vars

\* exactly one undisposed menu bar, the latest, with one listener of each kind
OneMenubar ==
    /\ tb.menubar = Len(bars)
    /\ tb.menubar # 0
    /\ \A b \in DOMAIN bars : bars[b].disposed <=> b # tb.menubar
    /\ Len(tb.reinstallDisposables) = 5
    /\ Registered(World, BarItem(tb.menubar)) = 1
    /\ Registered(World, FocusStateListener(tb.menubar)) = 1
    /\ Registered(World, VisibilityListener(tb.menubar)) = 1
    /\ Registered(World, FocusInListener) = 1
    /\ Registered(World, FocusOutListener) = 1

\* C5: on a non-Mac OS, as long as full rebuilds (updateMenu with firstTime =
\* true) are the latest calls that touched the menu bar, exactly one menu bar
\* is undisposed, every earlier one is disposed, and one listener of each kind
\* is registered.
C5_OneMenubarAfterRebuild ==
    (os = "windows" /\ hist.lastMenuOp = "rebuild") => OneMenubar

C5_Witness ==
    /\ os = "windows"
    /\ hist.lastMenuOp = "rebuild"
    /\ Len(bars) >= 2
    /\ OneMenubar

\* C6: the titlebar has the class 'inactive' iff the latest 'window-focus'
\* payload was false, and a false payload leaves an existing menu bar blurred.
C6_InactiveFollowsFocus ==
    /\ []("inactive" \in dom.titlebarClasses <=> hist.lastFocus = "false")
    /\ [][(WindowFocusIs(FALSE) /\ tb.menubar # 0)
          => ~bars'[tb.menubar].focused]_vars

\* a false payload, then a color update, with a menu bar rendered
C6_Witness ==
    /\ hist.lastFocus = "false"
    /\ "inactive" \in dom.titlebarClasses
    /\ tb.options.backgroundColor = Black
    /\ tb.options.itemBackgroundColor = White
    /\ tb.menubar # 0
    /\ ~bars[tb.menubar].disposed

\* C7: onWindowFullScreen on a non-Mac OS hides the titlebar and sets the
\* content offset to 0px (true), or shows it and sets the offset to 60px for
\* the stored position 'bottom' and 30px otherwise (false); on a Mac it
\* changes nothing.
C7_FullScreen ==
    [][\A fullscreen \in BOOLEAN :
        WindowFullScreenIs(fullscreen) =>
            IF os = "windows"
            THEN IF fullscreen
                 THEN dom'.titlebarHidden /\ dom'.containerTop = 0
                 ELSE /\ ~dom'.titlebarHidden
                      /\ dom'.containerTop =
                            IF tb.options.menuPosition = "bottom" THEN 60 ELSE 30
            ELSE UNCHANGED <<tb, dom, bars, ipc>>]_vars

C7_Witness ==
    /\ os = "windows"
    /\ hist.lastFullScreen = "false"
    /\ tb.options.menuPosition = "bottom"
    /\ ~dom.titlebarHidden
    /\ dom.containerTop = 60

\* the submenu nodes of a level whose own build yields an action
NonEmptySubmenus(items) ==
    {i \in DOMAIN items :
        items[i].kind = "submenu" /\ updateActions(items[i].items, FALSE) # <<>>}

\* the SubmenuActions of a built level
SubmenuActionsOf(built) == {j \in DOMAIN built : built[j].kind = "SubmenuAction"}

\* at every level, as many SubmenuActions as submenu nodes with a non-empty build
RECURSIVE SubmenusAppear(_, _)
SubmenusAppear(items, built) ==
    /\ Cardinality(SubmenuActionsOf(built)) = Cardinality(NonEmptySubmenus(items))
    /\ \A i \in DOMAIN items :
           items[i].kind = "submenu" =>
               SubmenusAppear(items[i].items, updateActions(items[i].items, FALSE))

\* C8: every submenu node whose build yields an action appears in the built
\* tree as a SubmenuAction, and no other submenu node does.
C8_NonEmptySubmenusAppear ==
    bPc = "done" => SubmenusAppear(bMenu.items, bActions)

RECURSIVE NoEmptySubmenuAction(_)
NoEmptySubmenuAction(built) ==
    \A j \in DOMAIN built :
        built[j].kind = "SubmenuAction" =>
            /\ Len(built[j].actions) > 0
            /\ NoEmptySubmenuAction(built[j].actions)

\* a top-level item whose submenu's only child is an empty submenu
NestedEmptyMenu == Menu(<<SubmenuItem(<<"s">>, <<SubmenuItem(<<"s">>, <<>>)>>)>>)

\* C9: no SubmenuAction of the built tree has zero child actions, at any
\* depth; the menu of one item whose only child is an empty submenu builds
\* no action.
C9_NoEmptySubmenuAction ==
    bPc = "done" =>
        /\ NoEmptySubmenuAction(bActions)
        /\ bMenu = NestedEmptyMenu => bActions = <<>>

\* an empty submenu was dropped beside a submenu that was kept
C9_Witness ==
    /\ bPc = "done"
    /\ \E i \in DOMAIN bMenu.items :
           bMenu.items[i].kind = "submenu" /\ bMenu.items[i].items = <<>>
    /\ SubmenuActionsOf(bActions) # {}

\* the actions the siblings of a level construct, in source order, each
\* submenu built by the same rule
RECURSIVE ConstructedAt(_, _)
ConstructedAt(items, i) ==
    IF i > Len(items) THEN <<>>
    ELSE LET all == ConstructedAt(items[i].items, 1)
             kept == SubSeq(all, 1, Len(all) - 1)
         IN  (IF items[i].kind = "item" THEN <<NewAction(items[i], FALSE)>>
              ELSE IF kept # <<>> THEN <<NewSubmenuAction(items[i], kept, FALSE)>>
              ELSE <<>>)
             \o ConstructedAt(items, i + 1)

\* C10: the list built for a level is the list of the actions its siblings
\* construct, in source order, without the last one (empty when there is none).
C10_DropsLastAction ==
    bPc = "done" =>
        LET all == ConstructedAt(bMenu.items, 1) IN
        bActions = SubSeq(all, 1, Len(all) - 1)

\* two levels each lost their last action
C10_Witness ==
    /\ bPc = "done"
    /\ Len(ConstructedAt(bMenu.items, 1)) = 3
    /\ Len(bActions) = 2
    /\ SubmenuActionsOf(bActions) # {}

\* C11: on a Mac no operation creates a menu bar or sends a
\* 'request-application-menu' request, and no step changes the stored menu
\* option.
C11_MacMenuNoOp ==
    /\ [](isMacintosh(World) => (bars = <<>> /\ tb.menubar = 0 /\ ipc.pending = 0))
    /\ [][isMacintosh(World) => tb'.options.menu = tb.options.menu]_vars


\* the n-th bit of a non-negative integer is set
BitSet(p, n) == (p \div 2^n) % 2 = 1

\* C12: for every 12-bit p, createSimpleKeybinding(p, OS) yields a keybinding
\* for the Mac and for every other OS, and the Mac result's ctrlKey is the
\* other result's metaKey and the Mac result's metaKey the other's ctrlKey.
C12_ModifierSwap ==
    (call.fn = "createSimpleKeybinding" /\ call.pc = "done" /\ call.keybinding < 2^12) =>
        \A OS \in OperatingSystems :
            /\ call.result[OS] \in [ctrlKey : BOOLEAN, shiftKey : BOOLEAN,
                                    altKey : BOOLEAN, metaKey : BOOLEAN,
                                    keyCode : 0..255]
            /\ OS # "Macintosh" =>
                   /\ call.result["Macintosh"].ctrlKey = call.result[OS].metaKey
                   /\ call.result["Macintosh"].metaKey = call.result[OS].ctrlKey

\* a 12-bit value with the ctrlCmd bit and without the winCtrl bit was decoded
C12_Witness ==
    /\ call.fn = "createSimpleKeybinding"
    /\ call.pc = "done"
    /\ call.keybinding < 2^12
    /\ call.result["Macintosh"].metaKey
    /\ ~call.result["Macintosh"].ctrlKey
    /\ call.result["Windows"].ctrlKey

\* C13: for every non-negative p, createSimpleKeybinding(p, OS) is
\* createSimpleKeybinding(p mod 4096, OS), with keyCode = p mod 256, altKey =
\* bit 9, shiftKey = bit 10, and ctrlKey = bit 8, metaKey = bit 11 on a Mac,
\* ctrlKey = bit 11, metaKey = bit 8 on every other OS.
C13_LowTwelveBits ==
    (call.fn = "createSimpleKeybinding" /\ call.pc = "done") =>
        LET p == call.keybinding IN
        \A OS \in OperatingSystems :
            LET r == call.result[OS] IN
            /\ r = createSimpleKeybinding(p % 4096, OS)
            /\ r.keyCode = p % 256
            /\ r.altKey = BitSet(p, 9)
            /\ r.shiftKey = BitSet(p, 10)
            /\ r.ctrlKey = BitSet(p, IF OS = "Macintosh" THEN 8 ELSE 11)
            /\ r.metaKey = BitSet(p, IF OS = "Macintosh" THEN 11 ELSE 8)

\* a value above 12 bits with the ctrlCmd bit and a key code was decoded
C13_Witness ==
    /\ call.fn = "createSimpleKeybinding"
    /\ call.pc = "done"
    /\ call.keybinding = 2^20 + 2049
    /\ call.result["Linux"] = SimpleKeybinding(TRUE, FALSE, FALSE, FALSE, 1)

\* C14: createSimpleKeybinding(0b000100000001, OS) yields {ctrlKey:true,
\* shiftKey:false, altKey:false, metaKey:false, keyCode:1} on a non-Mac OS and
\* ctrlKey:false, metaKey:true on a Mac.
C14_ScenarioThree ==
    (call.fn = "createSimpleKeybinding" /\ call.pc = "done" /\ call.keybinding = 257) =>
        /\ call.result["Windows"] = SimpleKeybinding(TRUE, FALSE, FALSE, FALSE, 1)
        /\ call.result["Linux"] = SimpleKeybinding(TRUE, FALSE, FALSE, FALSE, 1)
        /\ ~call.result["Macintosh"].ctrlKey
        /\ call.result["Macintosh"].metaKey

\* C14, amended: the packed value with the ctrlCmd bit (bit 11) and key code 1,
\* 0b100000000001, yields {ctrlKey:true, shiftKey:false, altKey:false,
\* metaKey:false, keyCode:1} on a non-Mac OS and ctrlKey:false, metaKey:true
\* on a Mac.
C14_ScenarioThreeCtrlCmd ==
    (call.fn = "createSimpleKeybinding" /\ call.pc = "done" /\ call.keybinding = 2049) =>
        /\ call.result["Windows"] = SimpleKeybinding(TRUE, FALSE, FALSE, FALSE, 1)
        /\ call.result["Linux"] = SimpleKeybinding(TRUE, FALSE, FALSE, FALSE, 1)
        /\ ~call.result["Macintosh"].ctrlKey
        /\ call.result["Macintosh"].metaKey

\* 0b100000000001 was decoded
C14_Witness ==
    /\ call.fn = "createSimpleKeybinding"
    /\ call.pc = "done"
    /\ call.keybinding = 2049
    /\ call.result["Macintosh"].keyCode = 1

\* the five fields of a SimpleKeybinding
KeybindingFields == {"ctrlKey", "shiftKey", "altKey", "metaKey", "keyCode"}

\* C15: a.equals(a) holds, a.equals(b) = b.equals(a), a.equals(b) holds exactly
\* when the five fields agree, and the hash codes agree exactly when
\* a.equals(b).
C15_EqualsAndHash ==
    (call.fn = "equals" /\ call.pc = "done") =>
        /\ call.aa
        /\ call.ab = call.ba
        /\ call.ab = (\A f \in KeybindingFields : call.a[f] = call.b[f])
        /\ (call.hashA = call.hashB) = call.ab

\* two keybindings that differ in metaKey alone were compared
C15_Witness ==
    /\ call.fn = "equals"
    /\ call.pc = "done"
    /\ call.a.metaKey # call.b.metaKey
    /\ \A f \in KeybindingFields \ {"metaKey"} : call.a[f] = call.b[f]
    /\ call.a.keyCode = 10
    /\ ~call.ab
    /\ call.hashA # call.hashB

\* the modifier flags, the key code and the scan codes that name each
ModifierFlags == {"ctrlKey", "shiftKey", "altKey", "metaKey"}
ModifierKeyCode ==
    [ctrlKey |-> KeyCode.Ctrl, shiftKey |-> KeyCode.Shift, altKey |-> KeyCode.Alt,
     metaKey |-> KeyCode.Meta]
ModifierScanCodes ==
    [ctrlKey |-> {"ControlLeft", "ControlRight"}, shiftKey |-> {"ShiftLeft", "ShiftRight"},
     altKey |-> {"AltLeft", "AltRight"}, metaKey |-> {"MetaLeft", "MetaRight"}]

\* C16: isDuplicateModifierCase() is true iff some modifier flag is set and
\* the key code (the left or right scan code) names that same modifier.
C16_DuplicateModifier ==
    (call.fn = "isDuplicateModifierCase" /\ call.pc = "done") =>
        /\ call.simpleResult =
               (\E m \in ModifierFlags :
                    call.simple[m] /\ call.simple.keyCode = ModifierKeyCode[m])
        /\ call.scanResult =
               (\E m \in ModifierFlags :
                    call.scan[m] /\ call.scan.scanCode \in ModifierScanCodes[m])

\* ctrlKey alone with the Shift key code and the right Shift scan code: false
C16_Witness ==
    /\ call.fn = "isDuplicateModifierCase"
    /\ call.pc = "done"
    /\ call.simple = SimpleKeybinding(TRUE, FALSE, FALSE, FALSE, KeyCode.Shift)
    /\ call.scan.scanCode = "ShiftRight"
    /\ ~call.simpleResult
    /\ ~call.scanResult

\* the length of the run of "&" that starts at position i of a label
RECURSIVE AmpRun(_, _)
AmpRun(label, i) ==
    IF i > Len(label) \/ label[i] # "&" THEN 0 ELSE 1 + AmpRun(label, i + 1)

\* the label with each "&&" of a run of "&" replaced by "&" and the "&" left
\* over in a run of odd length kept; other characters kept
RECURSIVE CollapseDoubleAmps(_, _)
CollapseDoubleAmps(label, i) ==
    IF i > Len(label) THEN <<>>
    ELSE IF label[i] = "&"
         THEN LET k == AmpRun(label, i) IN
              [j \in 1..((k \div 2) + (k % 2)) |-> "&"]
                  \o CollapseDoubleAmps(label, i + k)
    ELSE <<label[i]>> \o CollapseDoubleAmps(label, i + 1)

\* C17: on a non-Mac OS with mnemonics not force-disabled, mnemonicMenuLabel
\* replaces every "&&" by "&", leaves every single "&" unchanged and leaves
\* all other characters unchanged.
C17_SingleAmpKept ==
    (call.fn = "mnemonicMenuLabel" /\ call.pc = "done") =>
        call.nonMac = CollapseDoubleAmps(call.label, 1)

HasAmp(label) == \E i \in DOMAIN label : label[i] = "&"
HasDoubleAmp(label) ==
    \E i \in DOMAIN label : i < Len(label) /\ label[i] = "&" /\ label[i + 1] = "&"

\* C18: the non-Mac transform applied twice to a label without "&&" gives the
\* label back, and the Mac transform leaves a label without "&" unchanged.
C18_TransformTwice ==
    (call.fn = "mnemonicMenuLabel" /\ call.pc = "done") =>
        /\ ~HasDoubleAmp(call.label) => call.twice = call.label
        /\ ~HasAmp(call.label) => call.mac = call.label

\* a label with two single "&" went through the non-Mac transform twice
C18_Witness ==
    /\ call.fn = "mnemonicMenuLabel"
    /\ call.pc = "done"
    /\ call.label = <<"&", "a", "(", "&", ")">>
    /\ call.nonMac = <<"&", "&", "a", "(", "&", "&", ")">>
    /\ call.twice = call.label

\* the layout of a bottom menu: both heights 60px, no title resize listener
BottomLayout ==
    /\ dom.titlebarHeight = BOTTOM_TITLEBAR_HEIGHT
    /\ dom.containerTop = BOTTOM_TITLEBAR_HEIGHT
    /\ dom.titleResizeListeners = 0

\* C19: after construction with menuPosition 'bottom' and after every
\* updateMenuPosition('bottom'), the titlebar height and the content top
\* offset are 60px and no centered-title resize listener is on the window.
C19_BottomPosition ==
    /\ tb.options.menuPosition = "bottom" => BottomLayout
    /\ [][UpdateMenuPositionTo("bottom") => BottomLayout']_vars

\* C20: construction on a non-Mac OS with no icon option and no favicon link,
\* and updateMenu with an absent menu (also as the host's response), return
\* without throwing and leave the titlebar set up: attached after
\* construction, the menu bar styled after updateMenu.
C20_MissingInputsNeverRaise ==
    /\ call.pc # "threw"
    /\ (call.fn = "constructor" /\ call.pc = "done") => dom.titlebarAttached
    /\ (call.fn \in {"updateMenu", "response"} /\ tb.menubar # 0) =>
           bars[tb.menubar].style.backgroundColor # ""

\* what the maximize control and the resize handles show for a query result
ShowsMaximized(isMaximized) ==
    /\ dom.maximizeTitle = IF isMaximized THEN "Restore Down" ELSE "Maximize"
    /\ dom.maximizeIcon = IF isMaximized THEN "restore" ELSE "maximize"
    /\ dom.resizersHidden = isMaximized

\* C21: the maximized state is queried at load; a handler that sends
\* 'window-maximize' sends 'window-is-maximized' right after it; and the
\* maximize control and the resize handles show the latest query's result.
C21_MaximizeQuery ==
    /\ [](/\ hist.lastQuery # "none"
          /\ ShowsMaximized(hist.lastQuery = "true")
          /\ hist.sent \in {<<"window-is-maximized">>,
                            <<"window-maximize", "window-is-maximized">>})
    /\ [][(hist'.sent # hist.sent \/ hist'.lastQuery # hist.lastQuery) =>
              /\ hist'.sent = <<"window-maximize", "window-is-maximized">>
              /\ hist'.lastQuery = IF ipc.maximized THEN "true" ELSE "false"]_vars

\* a maximize click on Windows was answered with true
C21_Witness ==
    /\ os = "windows"
    /\ hist.sent = <<"window-maximize", "window-is-maximized">>
    /\ hist.lastQuery = "true"
    /\ dom.maximizeTitle = "Restore Down"
    /\ dom.resizersHidden

\* the action was built from a child of the menu item
BuiltFromChildOf(action, item) ==
    \E n \in DOMAIN item.items :
        LET child == item.items[n] IN
        /\ action.label = mnemonicMenuLabel(child.label, FALSE, FALSE)
        /\ (action.kind = "SubmenuAction") = (child.kind = "submenu")

\* C22: after updateMenu(menu) on a non-Mac OS, the menu bar's entries of two
\* top-level items with different submenus have different action lists, and
\* every action of an entry's list is built from a child of its own item.
C22_OwnSubmenuActions ==
    (os = "windows" /\ tb.menubar # 0 /\ hist.lastMenuOp = "rebuild") =>
        LET items == tb.options.menu.items
            menus == bars[tb.menubar].menus
        IN  \A i \in DOMAIN menus :
                /\ \A j \in DOMAIN menus :
                       items[i].items # items[j].items =>
                           menus[i].actions # menus[j].actions
                /\ \A n \in DOMAIN menus[i].actions :
                       BuiltFromChildOf(menus[i].actions[n], items[i])

\* C23: the menubar container has class 'bottom' exactly when the stored
\* menu position is 'bottom' and class 'right' exactly when it is 'right',
\* so it never carries both classes.
C23_ClassesMatchPosition ==
    /\ ("bottom" \in dom.menubarContainerClasses)
           <=> (tb.options.menuPosition = "bottom")
    /\ ("right" \in dom.menubarContainerClasses)
           <=> (tb.options.menuPosition = "right")
    /\ ~ {"bottom", "right"} \subseteq dom.menubarContainerClasses

\* C24: on a non-Mac OS the content top offset is 0 while the last
\* 'window-fullscreen' payload is true, and the height of the current menu
\* position (60 for 'bottom', else 30) while it is not.
C24_TopFollowsFullScreen ==
    (~isMacintosh(World) /\ ~hist.disposed) =>
        dom.containerTop =
            IF hist.lastFullScreen = "true" THEN 0
            ELSE IF tb.options.menuPosition = "bottom"
                 THEN BOTTOM_TITLEBAR_HEIGHT
                 ELSE TOP_TITLEBAR_HEIGHT_WIN

\* C25: a 'request-application-menu' response that arrives after dispose()
\* has no effect: the step that consumes it creates no menu bar, registers no
\* listener and leaves the DOM and the titlebar's fields as they were.
C25_ResponseAfterDisposeNoEffect ==
    [][(hist.disposed /\ ipc'.pending < ipc.pending) =>
           (bars' = bars /\ dom' = dom /\ tb' = tb)]_vars

\* C26: at most one centered-title resize listener is on the window, and
\* after updateTitleAlignment('left') or ('right') none is: a window resize to
\* a width of 1188px then does not turn the title to absolute centered
\* positioning.
C26_OneCenterListener ==
    /\ [](dom.titleResizeListeners <= 1)
    /\ [][(UpdateTitleAlignmentTo("left") \/ UpdateTitleAlignmentTo("right")) =>
              /\ dom'.titleResizeListeners = 0
              /\ ~dom'.titleCentered =>
                     ~(onTitleResize(World, 1188).dom.titleCentered)']_vars
=============================================================================
